---- MODULE Spec2Model ----
(***************************************************************************)
(* The release publication workflow of pocketlib-api:                      *)
(* publishStoreBookRelease (src/src/resolvers/storeBookRelease.ts).        *)
(* A call is a chain of synchronous segments separated by awaits; every    *)
(* segment is one action, so that concurrent calls interleave exactly at   *)
(* the awaits of the resolver.                                             *)
(***************************************************************************)
EXTENDS Integers, Sequences, FiniteSets, TLC

VARIABLES
    releases,   \* the storeBookRelease table: uuid -> row
    storeBook,  \* the parent StoreBook row of the releases (None: no such row)
    call,       \* per caller: the resolver invocation in flight
    now,        \* the clock read by new Date()
    writes      \* history: per release, number of update() calls applied

vars == <<releases, storeBook, call, now, writes>>

----------------------------------------------------------------------------
(* Optional values (null / undefined of the source). *)
None == <<>>
Some(v) == <<v>>

(* Bounds of the model. *)
MaxPages == 4

Procs == {"p1", "p2"}

----------------------------------------------------------------------------
(* Identities. *)
Users == {1, 2, 3}
admins == {1}

(* Validation policy (services/validationService.ts). *)
ReleaseNameMinLength == 2
ReleaseNameMaxLength == 20
ReleaseNotesMaxLength == 30
PrintFileMinPages == 2
PrintFileMaxPages == 3
PrintCoverPages == 1
PrintPageWidth == 4
PrintPageHeight == 6

validateReleaseNameLength(releaseName) ==
    IF Len(releaseName) < ReleaseNameMinLength THEN Some("releaseNameTooShort")
    ELSE IF Len(releaseName) > ReleaseNameMaxLength THEN Some("releaseNameTooLong")
    ELSE None

validateReleaseNotesLength(releaseNotes) ==
    IF Len(releaseNotes) > ReleaseNotesMaxLength THEN Some("releaseNotesTooLong")
    ELSE None

validateStoreBookPrintFilePages(pages) ==
    IF pages < PrintFileMinPages THEN Some("storeBookPrintFilePagesTooFew")
    ELSE IF pages > PrintFileMaxPages THEN Some("storeBookPrintFilePagesTooMany")
    ELSE None

validateStoreBookPrintFilePageSize(w, h) ==
    IF w = PrintPageWidth /\ h = PrintPageHeight THEN None
    ELSE Some("storeBookPrintFilePageSizeInvalid")

validateStoreBookPrintCoverPages(pages) ==
    IF pages = PrintCoverPages THEN None
    ELSE Some("storeBookPrintCoverPagesInvalid")

(* The cover wraps both sides and the spine; the spine grows with the pages. *)
SpineWidth(pages) == pages
validateStoreBookPrintCoverPageSize(w, h, pages) ==
    IF w = 2 * PrintPageWidth + SpineWidth(pages) /\ h = PrintPageHeight THEN None
    ELSE Some("storeBookPrintCoverPageSizeInvalid")

(* throwValidationError(...errors): drops the nulls, throws when a message is left. *)
RECURSIVE Messages(_)
Messages(errors) ==
    IF errors = <<>> THEN <<>>
    ELSE Head(errors) \o Messages(Tail(errors))

throwValidationError(errors) == Messages(errors) # <<>>

----------------------------------------------------------------------------
(* Inputs. *)
ReleaseUuids == {"R1", "R2"}
UuidInputs == {None} \cup {Some(u) : u \in ReleaseUuids \cup {"R9"}}
UserInputs == {None} \cup {Some(u) : u \in Users}
NameInputs == {"", "First Edition", "Second Edition",
               "A release name that is far too long"}
NotesInputs == {None, Some("Fixed typos"),
                Some("Release notes that are much longer than allowed")}

Requests ==
    [user : UserInputs, uuid : UuidInputs,
     releaseName : NameInputs, releaseNotes : NotesInputs]

(* Documents as the inspector reports them: a sequence of page views. *)
PageSizes == {[w |-> PrintPageWidth, h |-> PrintPageHeight],
              [w |-> PrintPageWidth + 1, h |-> PrintPageHeight]}
InTolerance(page) == validateStoreBookPrintFilePageSize(page.w, page.h) = None
PrintFiles ==
    {d \in UNION {[1..n -> PageSizes] : n \in 1..MaxPages} :
        Cardinality({k \in DOMAIN d : ~InTolerance(d[k])}) <= 1}
CoverSizes == {[w |-> 2 * PrintPageWidth + SpineWidth(n), h |-> PrintPageHeight] :
                  n \in PrintFileMinPages..PrintFileMaxPages}
PrintCovers == {<<c>> : c \in CoverSizes} \cup {<<c, c>> : c \in CoverSizes}

BookStatuses == {"published", "hidden", "review"}

Release(userId, status, printCover, printFile) ==
    [userId |-> userId, status |-> status,
     releaseName |-> "", releaseNotes |-> None, publishedAt |-> None,
     printCover |-> printCover, printFile |-> printFile]

(* A release published earlier by this workflow. *)
Published(userId) ==
    [userId |-> userId, status |-> Some("published"),
     releaseName |-> "Second Edition", releaseNotes |-> None,
     publishedAt |-> Some(0), printCover |-> None, printFile |-> None]

(* A call: pc is the await the invocation is suspended at; user, args,      *)
(* storeBookRelease and i are the locals of the resolver; result and errors *)
(* are what the caller gets. History of the call: atCall is the stored row  *)
(* when the call was made, ran the validators called, opened the documents  *)
(* requested, inspected the interior pages read, wrote the updates applied. *)
(* For a call of retrieveStoreBookRelease: query is its uuid argument,      *)
(* atCall the row it found and release the row it returns. For a call of    *)
(* a list operation: list holds its arguments, the take and skip it        *)
(* computed and what it asked for or returned.                             *)
Idle ==
    [pc |-> "idle", user |-> None, args |-> None, atCall |-> None,
     storeBookRelease |-> None, i |-> 0, ran |-> {}, opened |-> {},
     inspected |-> {}, errors |-> <<>>, result |-> "none", wrote |-> 0,
     query |-> None, release |-> None, list |-> None]

----------------------------------------------------------------------------
(* The initial states: two releases of one book. R1 (owner 2) has never    *)
(* been published and carries any combination of print assets; R2 (owner   *)
(* 3) is digital-only. *)
InitialStatuses == {None, Some("unpublished")}
StoreBooks == {None} \cup {Some([status |-> s]) : s \in BookStatuses}

TypeInit(r1, r2, book) ==
    /\ releases = [u \in ReleaseUuids |-> IF u = "R1" THEN r1 ELSE r2]
    /\ storeBook = book
    /\ call = [p \in Procs |-> Idle]
    /\ now = 1
    /\ writes = [u \in ReleaseUuids |-> 0]

(* Every store a single request can meet; R2 may have been published before. *)
Init ==
    \E status \in InitialStatuses,
       book \in StoreBooks,
       cover \in {None} \cup {Some(d) : d \in PrintCovers},
       file \in {None} \cup {Some(d) : d \in PrintFiles},
       r2 \in {Release(3, Some("unpublished"), None, None), Published(3)} :
        TypeInit(Release(2, status, cover, file), r2, book)

----------------------------------------------------------------------------
(* The checks of the resolver, one operator per condition. *)

\* line 63: admins.includes(user.id)
IsAdmin(user) == user \in admins

NotAllowedOwnerOnly(isAdmin, storeBookRelease, user) ==
    storeBookRelease.userId # user

NotAllowedPublishedFirst(isAdmin, storeBookRelease, user) ==
    /\ ~isAdmin /\ storeBookRelease.userId # user
    /\ storeBookRelease.status # Some("published")

\* line 76: !isAdmin && storeBookRelease.userId != BigInt(user.id)
NotAllowed(isAdmin, storeBookRelease, user) ==
    ~isAdmin /\ storeBookRelease.userId # user

IsPublishedNever(storeBookRelease) == FALSE

\* line 81: storeBookRelease.status == "published"
IsPublished(storeBookRelease) == storeBookRelease.status = Some("published")

ParentNotEligibleHidden(book) == book.status # "published"

ParentNotEligibleNever(book) == FALSE

\* line 91: storeBook.status != "published" && storeBook.status != "hidden"
ParentNotEligible(book) == book.status # "published" /\ book.status # "hidden"

\* lines 96-100: the errors of the arguments
ArgErrors(args) ==
    <<validateReleaseNameLength(args.releaseName)>> \o
    (IF args.releaseNotes # None
     THEN <<validateReleaseNotesLength(args.releaseNotes[1])>>
     ELSE <<>>)

ArgStages(args) ==
    {"releaseName"} \cup (IF args.releaseNotes # None THEN {"releaseNotes"} ELSE {})

StoreBookStepLate(book, args) ==
    IF throwValidationError(ArgErrors(args))
    THEN [result |-> "ValidationFailed", ran |-> ArgStages(args),
          errors |-> Messages(ArgErrors(args))]
    ELSE IF book.status # "published" /\ book.status # "hidden"
    THEN [result |-> "ParentNotPublished", ran |-> ArgStages(args), errors |-> <<>>]
    ELSE [result |-> "pass", ran |-> ArgStages(args), errors |-> <<>>]

\* lines 91-102: the parent check, then the validation of the arguments
StoreBookStep(book, args) ==
    IF ParentNotEligible(book)
    THEN [result |-> "ParentNotPublished", ran |-> {}, errors |-> <<>>]
    ELSE IF throwValidationError(ArgErrors(args))
    THEN [result |-> "ValidationFailed", ran |-> ArgStages(args),
          errors |-> Messages(ArgErrors(args))]
    ELSE [result |-> "pass", ran |-> ArgStages(args), errors |-> <<>>]

HasPrintAssetsNever(storeBookRelease) == FALSE

\* lines 104-107: both print assets attached
HasPrintAssets(storeBookRelease) ==
    storeBookRelease.printCover # None /\ storeBookRelease.printFile # None

UpdateDataNoDate(row, args, date) ==
    [row EXCEPT !.status = Some("published"),
                !.releaseName = args.releaseName,
                !.releaseNotes = args.releaseNotes]

\* lines 148-153: the data of the update
UpdateData(row, args, date) ==
    [row EXCEPT !.status = Some("published"),
                !.releaseName = args.releaseName,
                !.releaseNotes = args.releaseNotes,
                !.publishedAt = Some(date)]

UpdateWhereAny(table, id, args, date) ==
    [u \in DOMAIN table |-> UpdateData(table[u], args, date)]

UpdateWhereExclusive(table, id, args, date) ==
    [u \in DOMAIN table |->
        IF u = id THEN UpdateData(table[u], args, date)
        ELSE [table[u] EXCEPT !.status = Some("unpublished"), !.publishedAt = None]]

\* lines 146-147: update({ where: { id: storeBookRelease.id } })
UpdateWhere(table, id, args, date) ==
    [table EXCEPT ![id] = UpdateData(@, args, date)]

Throw(c, error) == [c EXCEPT !.pc = "done", !.result = error]

----------------------------------------------------------------------------
(* The segments of publishStoreBookRelease. *)

\* lines 54-66: up to the await of storeBookRelease.findFirst
Start(p, req) ==
    /\ LET c == [Idle EXCEPT
                    !.user = req.user,
                    !.args = Some([uuid |-> req.uuid,
                                   releaseName |-> req.releaseName,
                                   releaseNotes |-> req.releaseNotes]),
                    !.atCall = IF req.uuid # None /\ req.uuid[1] \in DOMAIN releases
                               THEN Some(releases[req.uuid[1]]) ELSE None]
       IN  call' = [call EXCEPT ![p] =
                IF req.uuid = None THEN Throw(c, "null")
                ELSE IF req.user = None THEN Throw(c, "NotAuthenticated")
                ELSE [c EXCEPT !.pc = "findRelease"]]
    /\ UNCHANGED <<releases, storeBook, now, writes>>

\* a caller's first request
Begin(p, req) ==
    /\ call[p].pc = "idle"
    /\ Start(p, req)

\* a caller's next request, its previous one being over
BeginAgain(p, req) ==
    /\ call[p].pc = "done"
    /\ Start(p, req)

\* lines 66-86: the release is loaded; up to the await of storeBook.findFirst
FindRelease(p) ==
    /\ call[p].pc = "findRelease"
    /\ LET c == call[p]
           uuid == c.args[1].uuid[1]
           user == c.user[1]
       IN  call' = [call EXCEPT ![p] =
                IF uuid \notin DOMAIN releases THEN Throw(c, "NotFound")
                ELSE IF NotAllowed(IsAdmin(user), releases[uuid], user)
                THEN Throw([c EXCEPT !.storeBookRelease = Some([id |-> uuid] @@ releases[uuid])],
                           "ActionNotAllowed")
                ELSE IF IsPublished(releases[uuid])
                THEN Throw([c EXCEPT !.storeBookRelease = Some([id |-> uuid] @@ releases[uuid])],
                           "AlreadyPublished")
                ELSE [c EXCEPT !.pc = "findStoreBook",
                               !.storeBookRelease = Some([id |-> uuid] @@ releases[uuid])]]
    /\ UNCHANGED <<releases, storeBook, now, writes>>

\* lines 86-117: the parent is loaded and checked, the arguments validated;
\* up to the await of getDocument(printFileUrl), or of update
FindStoreBook(p) ==
    /\ call[p].pc = "findStoreBook"
    /\ LET c == call[p]
           release == c.storeBookRelease[1]
       IN  call' = [call EXCEPT ![p] =
                IF storeBook = None THEN Throw(c, "TypeError")
                ELSE LET step == StoreBookStep(storeBook[1], c.args[1])
                         d == [c EXCEPT !.ran = step.ran, !.errors = step.errors]
                     IN  IF step.result # "pass" THEN Throw(d, step.result)
                         ELSE IF HasPrintAssets(release)
                         THEN [d EXCEPT !.pc = "getPrintFile", !.opened = {"printFile"}]
                         ELSE [d EXCEPT !.pc = "update"]]
    /\ UNCHANGED <<releases, storeBook, now, writes>>

LoopContinuesOffByOne(i, printFilePages) == i < printFilePages

\* line 122: i <= printFilePages
LoopContinues(i, printFilePages) == i <= printFilePages

\* lines 117-123: the interior document is open; its page count is validated
GetPrintFile(p) ==
    /\ call[p].pc = "getPrintFile"
    /\ LET c == call[p]
           printFilePdf == c.storeBookRelease[1].printFile[1]
           printFilePages == Len(printFilePdf)
           errors == <<validateStoreBookPrintFilePages(printFilePages)>>
           d == [c EXCEPT !.ran = @ \cup {"printFilePages"}, !.errors = Messages(errors)]
       IN  call' = [call EXCEPT ![p] =
                IF throwValidationError(errors) THEN Throw(d, "ValidationFailed")
                ELSE IF LoopContinues(1, printFilePages)
                THEN [d EXCEPT !.pc = "getFilePage", !.i = 1]
                ELSE [d EXCEPT !.pc = "getPrintCover", !.i = 1,
                               !.opened = @ \cup {"printCover"}]]
    /\ UNCHANGED <<releases, storeBook, now, writes>>

\* lines 123-131: page i of the interior document is validated
GetFilePage(p) ==
    /\ call[p].pc = "getFilePage"
    /\ LET c == call[p]
           printFilePdf == c.storeBookRelease[1].printFile[1]
           page == printFilePdf[c.i]
           errors == <<validateStoreBookPrintFilePageSize(page.w, page.h)>>
           d == [c EXCEPT !.ran = @ \cup {"printFilePageSize"},
                          !.inspected = @ \cup {c.i}, !.errors = Messages(errors)]
       IN  call' = [call EXCEPT ![p] =
                IF throwValidationError(errors) THEN Throw(d, "ValidationFailed")
                ELSE IF LoopContinues(c.i + 1, Len(printFilePdf))
                THEN [d EXCEPT !.i = c.i + 1]
                ELSE [d EXCEPT !.pc = "getPrintCover", !.i = c.i + 1,
                               !.opened = @ \cup {"printCover"}]]
    /\ UNCHANGED <<releases, storeBook, now, writes>>

\* lines 131-136: the cover document is open; its page count is validated
GetPrintCover(p) ==
    /\ call[p].pc = "getPrintCover"
    /\ LET c == call[p]
           printCoverPdf == c.storeBookRelease[1].printCover[1]
           errors == <<validateStoreBookPrintCoverPages(Len(printCoverPdf))>>
           d == [c EXCEPT !.ran = @ \cup {"printCoverPages"}, !.errors = Messages(errors)]
       IN  call' = [call EXCEPT ![p] =
                IF throwValidationError(errors) THEN Throw(d, "ValidationFailed")
                ELSE [d EXCEPT !.pc = "getCoverPage"]]
    /\ UNCHANGED <<releases, storeBook, now, writes>>

\* lines 136-146: the first page of the cover is validated against the
\* page count of the interior; up to the await of update
GetCoverPage(p) ==
    /\ call[p].pc = "getCoverPage"
    /\ LET c == call[p]
           printFilePdf == c.storeBookRelease[1].printFile[1]
           page == c.storeBookRelease[1].printCover[1][1]
           errors == <<validateStoreBookPrintCoverPageSize(page.w, page.h, Len(printFilePdf))>>
           d == [c EXCEPT !.ran = @ \cup {"printCoverPageSize"}, !.errors = Messages(errors)]
       IN  call' = [call EXCEPT ![p] =
                IF throwValidationError(errors) THEN Throw(d, "ValidationFailed")
                ELSE [d EXCEPT !.pc = "update"]]
    /\ UNCHANGED <<releases, storeBook, now, writes>>

\* lines 146-154: the release is published
Update(p) ==
    /\ call[p].pc = "update"
    /\ LET c == call[p]
           id == c.storeBookRelease[1].id
       IN  /\ releases' = UpdateWhere(releases, id, c.args[1], now)
           /\ writes' = [writes EXCEPT ![id] = @ + 1]
           /\ call' = [call EXCEPT ![p] =
                    [c EXCEPT !.pc = "done", !.result = "ok", !.wrote = @ + 1]]
    /\ now' = now + 1
    /\ UNCHANGED storeBook

Step(p) ==
    \/ FindRelease(p)
    \/ FindStoreBook(p)
    \/ GetPrintFile(p)
    \/ GetFilePage(p)
    \/ GetPrintCover(p)
    \/ GetCoverPage(p)
    \/ Update(p)

(* One request of any kind, against any store. *)
Next ==
    \/ \E req \in Requests : Begin("p1", req)
    \/ Step("p1")

Spec == Init /\ [][Next]_vars

----------------------------------------------------------------------------
(* Concurrent callers. Every caller issues request after request; the      *)
(* requests are those of the two authorized identities of R1 (an admin and *)
(* the owner), valid or with a name the validation rejects. *)
RaceRequests ==
    [user : {Some(1), Some(2)}, uuid : {Some("R1")},
     releaseName : {"", "First Edition", "Second Edition"},
     releaseNotes : {None, Some("Fixed typos")}]

(* A 2-page interior with in-tolerance pages, and the flat cover it needs. *)
ValidPrintFile == [n \in 1..PrintFileMinPages |->
                     [w |-> PrintPageWidth, h |-> PrintPageHeight]]
ValidPrintCover == <<[w |-> 2 * PrintPageWidth + SpineWidth(PrintFileMinPages),
                      h |-> PrintPageHeight]>>

InitRace ==
    \E status \in InitialStatuses,
       book \in {Some([status |-> "published"]), Some([status |-> "hidden"])},
       print \in {<<None, None>>, <<Some(ValidPrintCover), Some(ValidPrintFile)>>} :
        TypeInit(Release(2, status, print[1], print[2]),
                 Release(3, Some("unpublished"), None, None), book)

NextRace ==
    \/ \E p \in Procs, req \in RaceRequests : Begin(p, req)
    \/ \E p \in Procs, req \in RaceRequests : BeginAgain(p, req)
    \/ \E p \in Procs : Step(p)

SpecRace == InitRace /\ [][NextRace]_vars

----------------------------------------------------------------------------
(* retrieveStoreBookRelease, lines 26-43. *)

DefaultStatusKept(release) == release

\* lines 38-40: if (release.status == null) release.status = "unpublished"
DefaultStatus(release) ==
    IF release.status = None THEN [release EXCEPT !.status = Some("unpublished")]
    ELSE release

\* lines 31-34: a null uuid returns null; up to the await of findFirst
Retrieve(p, uuid) ==
    /\ call[p].pc \in {"idle", "retrieved"}
    /\ call' = [call EXCEPT ![p] =
            IF uuid = None
            THEN [Idle EXCEPT !.pc = "retrieved", !.query = Some(uuid), !.result = "null"]
            ELSE [Idle EXCEPT !.pc = "retrieveFind", !.query = Some(uuid)]]
    /\ UNCHANGED <<releases, storeBook, now, writes>>

\* lines 34-42: the row found is returned with its status defaulted; line 38
\* reads release.status of the null that findFirst gives for a missing row
RetrieveFind(p) ==
    /\ call[p].pc = "retrieveFind"
    /\ LET c == call[p]
           uuid == c.query[1][1]
       IN  call' = [call EXCEPT ![p] =
                IF uuid \notin DOMAIN releases
                THEN [c EXCEPT !.pc = "retrieved", !.result = "TypeError"]
                ELSE [c EXCEPT !.pc = "retrieved", !.result = "ok",
                               !.atCall = Some(releases[uuid]),
                               !.release = Some(DefaultStatus(releases[uuid]))]]
    /\ UNCHANGED <<releases, storeBook, now, writes>>

----------------------------------------------------------------------------
(* One caller, request after request on either release of the book, by the *)
(* admin or by an owner, while a second caller retrieves releases.         *)
SeqRequests ==
    [user : {Some(1), Some(2), Some(3)}, uuid : {Some("R1"), Some("R2")},
     releaseName : {"", "First Edition", "Second Edition"},
     releaseNotes : {None}]

NextSeq ==
    \/ \E req \in SeqRequests : Begin("p1", req)
    \/ \E req \in SeqRequests : BeginAgain("p1", req)
    \/ Step("p1")
    \/ \E uuid \in UuidInputs : Retrieve("p2", uuid)
    \/ RetrieveFind("p2")

SpecSeq == InitRace /\ [][NextSeq]_vars

----------------------------------------------------------------------------
(* The list operations: categories (storeBookRelease.ts lines 222-248) and *)
(* search. limit and offset are optional integers.                         *)

\* the largest limit and offset a caller gives, in absolute value
MaxLimit == 12
\* the most categories linked to a release
MaxCategories == 3

DefaultTake == 10

LimitInputs == {None} \cup {Some(n) : n \in (0 - MaxLimit)..MaxLimit}

\* a || b on an optional number: b when a is null, undefined or 0
OrElse(a, b) == IF a = None \/ a[1] = 0 THEN b ELSE a[1]

\* a ?? b: b when a is null or undefined only
Coalesce(a, b) == IF a = None THEN b ELSE a[1]

ClampTakeNegative(take) == IF take < 0 THEN DefaultTake ELSE take

\* if (take <= 0) take = 10
ClampTake(take) == IF take <= 0 THEN DefaultTake ELSE take

\* if (skip < 0) skip = 0
ClampSkip(skip) == IF skip < 0 THEN 0 ELSE skip

Min(a, b) == IF a <= b THEN a ELSE b

\* findMany({ where, take, skip }) over n matching rows: the positions of
\* the rows returned
FindMany(n, take, skip) ==
    [k \in 1..(IF skip >= n THEN 0 ELSE Min(take, n - skip)) |-> skip + k]

\* Math.floor(skip / take) + 1, or 1 when skip is 0
Page(skip, take) == IF skip > 0 THEN (skip \div take) + 1 ELSE 1

\* categories, lines 222-248; n rows are linked to the release
categories(p, id, limit, offset, n) ==
    /\ call[p].pc = "idle"
    /\ LET take == ClampTake(OrElse(limit, DefaultTake))
           skip == ClampSkip(OrElse(offset, 0))
       IN  call' = [call EXCEPT ![p] =
                [Idle EXCEPT !.pc = "listed", !.result = "ok",
                    !.list = Some([op |-> "categories", of |-> id,
                                   limit |-> limit, offset |-> offset,
                                   take |-> take, skip |-> skip,
                                   total |-> n,
                                   items |-> FindMany(n, take, skip),
                                   page |-> 0])]]
    /\ UNCHANGED <<releases, storeBook, now, writes>>

\* search, lines 11-29: the page and size asked of getProducts
search(p, limit, offset) ==
    /\ call[p].pc = "idle"
    /\ LET take == ClampTake(Coalesce(limit, DefaultTake))
           skip == ClampSkip(Coalesce(offset, 0))
       IN  call' = [call EXCEPT ![p] =
                [Idle EXCEPT !.pc = "listed", !.result = "ok",
                    !.list = Some([op |-> "search", of |-> "",
                                   limit |-> limit, offset |-> offset,
                                   take |-> take, skip |-> skip,
                                   total |-> 0, items |-> <<>>,
                                   page |-> Page(skip, take)])]]
    /\ UNCHANGED <<releases, storeBook, now, writes>>

InitList ==
    TypeInit(Release(2, Some("unpublished"), None, None),
             Release(3, Some("unpublished"), None, None),
             Some([status |-> "published"]))

NextList ==
    \/ \E id \in ReleaseUuids, limit \in LimitInputs, offset \in LimitInputs,
          n \in 0..MaxCategories : categories("p1", id, limit, offset, n)
    \/ \E limit \in LimitInputs, offset \in LimitInputs : search("p1", limit, offset)

SpecList == InitList /\ [][NextList]_vars

----------------------------------------------------------------------------
(* Vocabulary of the properties. *)
Range(f) == {f[x] : x \in DOMAIN f}
Done(c) == c.pc = "done"
Named(c) == c.args # None /\ c.args[1].uuid # None
Target(c) == c.args[1].uuid[1]

(* The caller is an admin or the owner of the release found at call time. *)
Authorized(c) ==
    /\ c.user # None
    /\ c.atCall # None
    /\ (c.user[1] \in admins \/ c.user[1] = c.atCall[1].userId)

Failures == {"NotAuthenticated", "NotFound", "ActionNotAllowed",
             "AlreadyPublished", "ParentNotPublished", "ValidationFailed"}

EligibleParent == storeBook # None /\ storeBook[1].status \in {"published", "hidden"}

PrintStages == {"printFilePages", "printFilePageSize",
                "printCoverPages", "printCoverPageSize"}

(* The validation pipeline as a whole: the messages of all failing stages. *)
PipelineFailures(row, args) ==
    Range(Messages(ArgErrors(args))) \cup
    (IF row.printCover # None /\ row.printFile # None
     THEN LET file == row.printFile[1]
              cover == row.printCover[1]
          IN  Range(validateStoreBookPrintFilePages(Len(file)))
              \cup UNION {Range(validateStoreBookPrintFilePageSize(file[k].w, file[k].h)) :
                            k \in 1..Len(file)}
              \cup Range(validateStoreBookPrintCoverPages(Len(cover)))
              \cup Range(validateStoreBookPrintCoverPageSize(cover[1].w, cover[1].h, Len(file)))
     ELSE {})

----------------------------------------------------------------------------
\* C1: of concurrent publish calls on one initially-unpublished release at
\* most one succeeds: the unpublished -> published write is applied at most
\* once per release, and two callers never both hold a success for it.
C1_PublishedAtMostOnce ==
    /\ \A u \in ReleaseUuids : writes[u] <= 1
    /\ \A p, q \in Procs :
          (p # q /\ Done(call[p]) /\ Done(call[q])
             /\ Target(call[p]) = Target(call[q]))
          => ~(call[p].result = "ok" /\ call[q].result = "ok")

\* C2: a publish call by an authorized caller on a release whose stored
\* status is published when the call is made ends in AlreadyPublished and
\* applies no update; the stored releaseName, releaseNotes and publishedAt
\* are those the call found.
C2_PublishedIsRejected ==
    \A p \in Procs :
        LET c == call[p] IN
        (Named(c) /\ Authorized(c) /\ c.atCall[1].status = Some("published"))
        => /\ c.wrote = 0
           /\ Done(c) => c.result = "AlreadyPublished"
           /\ (Done(c) /\ writes[Target(c)] = 1) =>
                 /\ releases[Target(c)].releaseName = c.atCall[1].releaseName
                 /\ releases[Target(c)].releaseNotes = c.atCall[1].releaseNotes
                 /\ releases[Target(c)].publishedAt = c.atCall[1].publishedAt

\* a second call on R1 was rejected after a first one had published it
C2_Witness ==
    \E p, q \in Procs :
        /\ p # q
        /\ Done(call[p]) /\ call[p].result = "ok" /\ Target(call[p]) = "R1"
        /\ Done(call[q]) /\ call[q].result = "AlreadyPublished"
        /\ Authorized(call[q]) /\ call[q].atCall[1].status = Some("published")
        /\ writes["R1"] = 1

(* Everything the workflow checks, evaluated on the release found at call  *)
(* time and on the request as a whole. *)
AllChecksPass(c) ==
    /\ Authorized(c)
    /\ c.atCall[1].status # Some("published")
    /\ EligibleParent
    /\ PipelineFailures(c.atCall[1], c.args[1]) = {}

\* C3: a call that ends in one of the six business errors has applied no
\* update and leaves the release record as it found it; no update is applied
\* before the end of a call, and a call applies one only if the caller is
\* authorized, the release unpublished, the parent eligible and no stage of
\* the validation fails.
C3_NoMutationUnlessChecksPass ==
    \A p \in Procs :
        LET c == call[p] IN
        /\ (Done(c) /\ c.result \in Failures) =>
              /\ c.wrote = 0
              /\ \A u \in ReleaseUuids : writes[u] = 0
              /\ c.atCall # None => releases[Target(c)] = c.atCall[1]
        /\ c.pc \notin {"idle", "done"} => \A u \in ReleaseUuids : writes[u] = 0
        /\ c.wrote > 0 => c.result = "ok" /\ AllChecksPass(c)

\* a call failed at the last validation stage, after both documents were read
C3_Witness ==
    \E p \in Procs :
        /\ Done(call[p]) /\ call[p].result = "ValidationFailed"
        /\ "printCoverPageSize" \in call[p].ran
        /\ releases[Target(call[p])] = call[p].atCall[1]

\* C4: in every state reached from never-published releases by any
\* interleaving of publish calls, publishedAt is set exactly when the status
\* is published.
C4_PublishedAtIffPublished ==
    \A u \in ReleaseUuids :
        releases[u].publishedAt # None <=> releases[u].status = Some("published")

\* R1 is published, written by two interleaved calls
C4_Witness ==
    /\ releases["R1"].status = Some("published")
    /\ releases["R1"].publishedAt # None
    /\ writes["R1"] = 2

\* C5: a ValidationFailed error carries the messages of all failing stages
\* of the attempt.
C5_AllFailuresReported ==
    \A p \in Procs :
        LET c == call[p] IN
        (Done(c) /\ c.result = "ValidationFailed")
        => Range(c.errors) = PipelineFailures(c.storeBookRelease[1], c.args[1])

\* C6: of the requests that name a release: without identity the outcome is
\* NotAuthenticated, and only then; with an identity that is neither an admin
\* nor the owner of the release it is ActionNotAllowed, and only then; an
\* admin passes the gate for any release and the owner for their own.
C6_AuthorizationOutcomes ==
    \A p \in Procs :
        LET c == call[p] IN
        (Done(c) /\ Named(c)) =>
            /\ c.result = "NotAuthenticated" <=> c.user = None
            /\ (c.user # None /\ c.atCall # None) =>
                  (c.result = "ActionNotAllowed" <=> ~Authorized(c))
            /\ c.result = "ActionNotAllowed" => c.atCall # None
            /\ Authorized(c) => c.result \in {"AlreadyPublished", "ParentNotPublished",
                                               "ValidationFailed", "TypeError", "ok"}

\* the admin published the release of another user
C6_Witness ==
    \E p \in Procs :
        /\ Done(call[p]) /\ call[p].result = "ok"
        /\ call[p].user = Some(1) /\ call[p].atCall[1].userId = 2

\* C7: a call that ends in NotAuthenticated, ActionNotAllowed,
\* AlreadyPublished or ParentNotPublished has run no validation stage and
\* has opened and inspected no document.
C7_ShortCircuitBeforeValidation ==
    \A p \in Procs :
        LET c == call[p] IN
        (Done(c) /\ c.result \in {"NotAuthenticated", "ActionNotAllowed",
                                   "AlreadyPublished", "ParentNotPublished"})
        => c.ran = {} /\ c.opened = {} /\ c.inspected = {} /\ c.errors = <<>>

\* ParentNotPublished for a request with an invalid name on a release that
\* carries both print documents
C7_Witness ==
    \E p \in Procs :
        /\ Done(call[p]) /\ call[p].result = "ParentNotPublished"
        /\ validateReleaseNameLength(call[p].args[1].releaseName) # None
        /\ call[p].atCall[1].printCover # None /\ call[p].atCall[1].printFile # None

\* C8: for an authorized caller on an unpublished release whose parent
\* exists, the outcome is ParentNotPublished exactly when the parent's status
\* is neither published nor hidden, whatever the validity of the name, the
\* notes and the print documents.
C8_ParentStatusDecides ==
    \A p \in Procs :
        LET c == call[p] IN
        /\ (Done(c) /\ c.result = "ParentNotPublished") => ~EligibleParent
        /\ (Done(c) /\ Named(c) /\ Authorized(c) /\ storeBook # None
              /\ c.atCall[1].status # Some("published"))
           => (c.result = "ParentNotPublished" <=> ~EligibleParent)

\* ParentNotPublished for a request and a release that pass every validation
C8_Witness ==
    \E p \in Procs :
        /\ Done(call[p]) /\ call[p].result = "ParentNotPublished"
        /\ call[p].atCall[1].printCover # None /\ call[p].atCall[1].printFile # None
        /\ PipelineFailures(call[p].atCall[1], call[p].args[1]) = {}

\* C9: the print stages run only for a release with both a print cover and
\* a print file, and they run for every such release once the call gets to
\* them (caller authorized, release unpublished, parent eligible, name and
\* notes accepted); for a release lacking either document no print stage
\* runs, no document is opened or inspected, and the call succeeds when the
\* name and notes checks pass and authorization and parent status hold.
C9_PrintValidationGate ==
    \A p \in Procs :
        LET c == call[p]
            atGate == /\ Authorized(c)
                      /\ c.atCall[1].status # Some("published")
                      /\ EligibleParent
                      /\ Messages(ArgErrors(c.args[1])) = <<>>
        IN
        /\ (c.ran \cap PrintStages # {} \/ c.opened # {} \/ c.inspected # {})
           => HasPrintAssets(c.atCall[1])
        /\ (Done(c) /\ Named(c) /\ atGate) =>
              IF c.atCall[1].printCover # None /\ c.atCall[1].printFile # None
              THEN "printFilePages" \in c.ran /\ "printFile" \in c.opened
              ELSE c.result = "ok"

\* a release with a print cover and no print file was published unread
C9_Witness ==
    \E p \in Procs :
        /\ Done(call[p]) /\ call[p].result = "ok"
        /\ call[p].atCall[1].printCover # None /\ call[p].atCall[1].printFile = None
        /\ call[p].ran \cap PrintStages = {} /\ call[p].opened = {}

\* C10: the step that ends a call in success is the call's one update: it
\* sets status, releaseName, releaseNotes and publishedAt of the targeted
\* release from the request and leaves its other fields, every other release
\* and the parent StoreBook unchanged.
C10_OnlyTargetMutated ==
    [][\A p \in Procs :
          (call[p].pc # "done" /\ call'[p].pc = "done" /\ call'[p].result = "ok")
          => LET c == call'[p]
                 id == Target(c)
             IN  /\ c.wrote = 1
                 /\ writes' = [writes EXCEPT ![id] = @ + 1]
                 /\ releases'[id].status = Some("published")
                 /\ releases'[id].releaseName = c.args[1].releaseName
                 /\ releases'[id].releaseNotes = c.args[1].releaseNotes
                 /\ releases'[id].publishedAt # None
                 /\ releases'[id].userId = releases[id].userId
                 /\ releases'[id].printCover = releases[id].printCover
                 /\ releases'[id].printFile = releases[id].printFile
                 /\ \A u \in ReleaseUuids \ {id} : releases'[u] = releases[u]
                 /\ storeBook' = storeBook]_vars

\* the owner published the digital-only R1 as "First Edition" without notes;
\* R2 is as it was
C10_Witness ==
    \E p \in Procs :
        /\ Done(call[p]) /\ call[p].result = "ok"
        /\ call[p].user = Some(2) /\ Target(call[p]) = "R1"
        /\ call[p].args[1].releaseName = "First Edition"
        /\ call[p].args[1].releaseNotes = None
        /\ releases["R1"].status = Some("published")
        /\ releases["R1"].releaseName = "First Edition"
        /\ releases["R1"].publishedAt = Some(1)
        /\ releases["R1"].printCover = None /\ releases["R1"].printFile = None
        /\ releases["R2"].status = Some("unpublished")
        /\ storeBook = Some([status |-> "published"])

PublishedReleases == {u \in ReleaseUuids : releases[u].status = Some("published")}

\* C11 as stated: at most one release of the book is in status published.
C11_AtMostOnePublished == Cardinality(PublishedReleases) <= 1

\* C11, amended: after any sequence of publish calls on the releases of a
\* book, the releases in status published are exactly those a successful
\* call targeted; none is taken back, so several can be published at once.
C11_PublishedAreThoseTargeted ==
    \A u \in ReleaseUuids :
        releases[u].status = Some("published") <=> writes[u] >= 1

\* both releases of the book are published, each by its own call
C11_Witness ==
    /\ PublishedReleases = {"R1", "R2"}
    /\ writes = [u \in ReleaseUuids |-> 1]

\* C12 as stated: a call by an authorized caller on an existing, unpublished
\* release whose parent StoreBook record does not exist ends with the
\* business error NotFound and has applied no update.
C12_MissingParentIsNotFound ==
    \A p \in Procs :
        LET c == call[p]
        IN  (/\ Done(c) /\ Named(c) /\ Authorized(c)
             /\ c.atCall[1].status # Some("published")
             /\ storeBook = None)
            => (c.result = "NotFound" /\ c.wrote = 0
                /\ releases[Target(c)] = c.atCall[1])

(* The outcome a request has when the checks are taken in the order: *)
(* identity, release lookup, owner or admin, already published, parent *)
(* status, validation. *)
FirstFailure(c) ==
    IF c.user = None THEN "NotAuthenticated"
    ELSE IF c.atCall = None THEN "NotFound"
    ELSE IF ~Authorized(c) THEN "ActionNotAllowed"
    ELSE IF c.atCall[1].status = Some("published") THEN "AlreadyPublished"
    ELSE IF ~EligibleParent THEN "ParentNotPublished"
    ELSE IF PipelineFailures(c.atCall[1], c.args[1]) # {} THEN "ValidationFailed"
    ELSE "ok"

\* C13 as stated: the release lookup is the first step, so a publish request
\* for a release uuid that does not exist ends with NotFound, whoever calls.
C13_LookupPrecedesGate ==
    \A p \in Procs :
        LET c == call[p]
        IN  (Done(c) /\ Named(c) /\ c.atCall = None) => c.result = "NotFound"

\* C13, amended: the checks are taken in the order identity present
\* (NotAuthenticated), release lookup (NotFound), owner or admin
\* (ActionNotAllowed), already published, parent status, validation, and a
\* call ends with the first of them that fails; for a release uuid that does
\* not exist that is NotAuthenticated without an identity and NotFound with
\* one. (A parent record that does not exist is outside the order.)
C13_CheckOrder ==
    \A p \in Procs :
        LET c == call[p]
        IN  (Done(c) /\ Named(c))
            => /\ (c.atCall = None /\ c.user = None) => c.result = "NotAuthenticated"
               /\ (c.atCall = None /\ c.user # None) => c.result = "NotFound"
               /\ (storeBook # None \/ FirstFailure(c) \in
                        {"NotAuthenticated", "NotFound", "ActionNotAllowed",
                         "AlreadyPublished"})
                    => c.result = FirstFailure(c)

\* a request without identity for a release that does not exist, answered
\* NotAuthenticated
C13_Witness ==
    \E p \in Procs :
        /\ Done(call[p]) /\ Named(call[p])
        /\ call[p].atCall = None /\ call[p].user = None
        /\ call[p].result = "NotAuthenticated"

BadPages(file) ==
    {k \in 1..Len(file) : validateStoreBookPrintFilePageSize(file[k].w, file[k].h) # None}

\* C14: for a call that gets past the authorization, status and parent checks
\* on a release with both print assets attached: if any page of the interior
\* document, at any index, is out of tolerance the call ends with
\* ValidationFailed and the release is left as it was; and a call that
\* publishes has inspected every page 1..pageCount and found all in tolerance.
C14_EveryPageInspected ==
    \A p \in Procs :
        LET c == call[p]
        IN  (/\ Done(c) /\ Named(c) /\ Authorized(c)
             /\ c.atCall[1].status # Some("published")
             /\ EligibleParent
             /\ c.atCall[1].printCover # None /\ c.atCall[1].printFile # None)
            => LET file == c.atCall[1].printFile[1]
               IN  /\ BadPages(file) # {}
                        => /\ c.result = "ValidationFailed"
                           /\ c.wrote = 0
                           /\ releases[Target(c)] = c.atCall[1]
                   /\ c.result = "ok"
                        => /\ c.inspected = 1..Len(file)
                           /\ BadPages(file) = {}

\* the only bad page is the last one of several; every page before it was
\* inspected and the call failed on it
C14_Witness ==
    \E p \in Procs :
        LET c == call[p]
        IN  /\ Done(c) /\ Named(c) /\ Authorized(c)
            /\ c.atCall[1].printFile # None
            /\ Len(c.atCall[1].printFile[1]) >= 2
            /\ BadPages(c.atCall[1].printFile[1]) = {Len(c.atCall[1].printFile[1])}
            /\ c.inspected = 1..Len(c.atCall[1].printFile[1])
            /\ c.result = "ValidationFailed" /\ c.wrote = 0

\* C15: a release with no status recorded is treated as unpublished:
\* retrieveStoreBookRelease returns the row it found with status
\* "unpublished" in place of null and nothing else changed, and
\* publishStoreBookRelease never answers AlreadyPublished for it: an
\* authorized call goes on to the parent check, then to validation, and
\* publishes it when those pass.
C15_NullStatusIsUnpublished ==
    \A p \in Procs :
        LET c == call[p]
        IN  /\ (c.pc = "retrieved" /\ c.result = "ok")
                => /\ c.atCall # None /\ c.release # None
                   /\ c.atCall[1].status = None
                        => c.release[1] =
                              [c.atCall[1] EXCEPT !.status = Some("unpublished")]
                   /\ c.atCall[1].status # None => c.release[1] = c.atCall[1]
            /\ (Done(c) /\ Named(c) /\ c.atCall # None /\ c.atCall[1].status = None)
                => /\ c.result # "AlreadyPublished"
                   /\ (Authorized(c) /\ ~EligibleParent)
                        => c.result = "ParentNotPublished"
                   /\ (Authorized(c) /\ EligibleParent)
                        => /\ "releaseName" \in c.ran
                           /\ c.result \in {"ok", "ValidationFailed"}
                   /\ AllChecksPass(c)
                        => /\ c.result = "ok"
                           /\ releases[Target(c)].status = Some("published")

\* the release with a null status was returned as unpublished to one caller
\* and then published for another
C15_Witness ==
    /\ call["p2"].pc = "retrieved" /\ call["p2"].result = "ok"
    /\ call["p2"].query = Some(Some("R1"))
    /\ call["p2"].atCall[1].status = None
    /\ call["p2"].release[1].status = Some("unpublished")
    /\ Done(call["p1"]) /\ call["p1"].result = "ok"
    /\ Target(call["p1"]) = "R1"
    /\ call["p1"].atCall[1].status = None
    /\ releases["R1"].status = Some("published")

\* C16: for every limit/offset pair given to categories or search, the page
\* size used is the given limit when it is positive and 10 when it is zero,
\* negative or absent; the offset used is the given offset when it is not
\* negative and 0 when it is negative or absent; so the page size is always
\* > 0 and the offset always >= 0, and no more rows than the page size are
\* returned or asked for.
C16_EffectiveLimitOffset ==
    \A p \in Procs :
        call[p].list # None
        => LET l == call[p].list[1]
           IN  /\ l.take = (IF l.limit # None /\ l.limit[1] > 0 THEN l.limit[1] ELSE 10)
               /\ l.skip = (IF l.offset # None /\ l.offset[1] >= 0 THEN l.offset[1] ELSE 0)
               /\ l.take > 0 /\ l.skip >= 0
               /\ Len(l.items) <= l.take
               /\ \A k \in DOMAIN l.items : l.items[k] > l.skip /\ l.items[k] <= l.total
               /\ l.op = "search" => l.page >= 1

\* search called with limit 0 and a negative offset: page size 10, offset 0
C16_Witness ==
    \E p \in Procs :
        /\ call[p].list # None
        /\ call[p].list[1].op = "search"
        /\ call[p].list[1].limit = Some(0) /\ call[p].list[1].offset = Some(0 - 1)
        /\ call[p].list[1].take = 10 /\ call[p].list[1].skip = 0

====
